---- MODULE Spec2Model ----
(***************************************************************************)
(* Model of dbx's ExecutionController (src/dbx/api/execute.py) and of the  *)
(* PackageManager artifact locator (src/dbx/api/dependency/                *)
(* package_manager.py).                                                    *)
(*                                                                         *)
(* One behaviour is the lifetime of one controller: Init is the state      *)
(* right after __init__, and every step is one statement of run() that     *)
(* touches a collaborator (file uploader, remote client, parameter         *)
(* adjuster, mlflow).  Every collaborator call may succeed or raise.       *)
(*                                                                         *)
(* Spec        run() invoked on one controller, up to MaxRuns times        *)
(* SpecDirect  Spec, with install_extra_package() also invoked directly    *)
(* SpecLocator PackageManager.__init__ over every small dist directory     *)
(* SpecProbe   _identify_runtime_version over every short command output   *)
(***************************************************************************)
EXTENDS Integers, Sequences, FiniteSets, TLC

VARIABLES
    self,           \* the controller's attributes, set by __init__
    fs_exists,      \* does the requirements file exist on the local disk
    phase,          \* the block of run() being executed
    pc,             \* the statement inside that block
    calls,          \* collaborator calls issued by the current run(), in order
    error,          \* the exception that left the current run(), or NoError
    version,        \* _version, local of _refresh_python_if_necessary
    parameters,     \* argument of preprocess_task_parameters
    active_run,     \* mlflow: is the tracked run open
    start_runs,     \* mlflow.start_run() calls over the controller's lifetime
    end_runs,       \* mlflow.end_run() calls over the controller's lifetime
    runs,           \* invocations of the controller's methods so far
    entry,          \* the method invoked on the controller, or None
    package_path,   \* PackageManager: the package_path argument
    fs,             \* PackageManager: directory |-> files as the glob lists them
    file_locator,   \* get_package_file: the globbed list
    sorted_locator, \* get_package_file: the list sorted by mtime
    package,        \* PackageManager._package, <<>> for None
    lpc,            \* position in PackageManager.__init__
    version_string, \* output handed to _identify_runtime_version on its own
    probed,         \* and what it returned
    ppc             \* position of that evaluation

\* The state of the package manager and of the stand-alone probe evaluation.
aux == <<package_path, fs, file_locator, sorted_locator, package, lpc,
         version_string, probed, ppc>>

vars == <<self, fs_exists, phase, pc, calls, error, version, parameters,
          active_run, start_runs, end_runs, runs, entry, aux>>

----------------------------------------------------------------------------
(* Bounds *)

MaxRuns == 2        \* run() invocations on one controller
MaxOutLen == 2      \* length of the introspection command's output
MaxFiles == 3       \* files in a dist directory
MaxMtime == 3       \* modification times are 1..MaxMtime
MaxProbeLen == 4    \* output length when the probe is evaluated on its own

----------------------------------------------------------------------------
(* Values *)

None == "None"

\* A parameter collection (List[str] or Dict[str, str]) or None.
NoneParams == [present |-> FALSE, items |-> <<>>]
Params(items) == [present |-> TRUE, items |-> items]
ParamValues == {NoneParams, Params(<<>>), Params(<<"p">>)}

\* Python truthiness of an Optional collection.
Truthy(p) == p.present /\ Len(p.items) > 0

\* Optional[int]
Unknown == [known |-> FALSE, val |-> 0]
Known(n) == [known |-> TRUE, val |-> n]

NoError == "NoError"

----------------------------------------------------------------------------
(* Strings are sequences of one-character strings. *)

Chars == {"1", "3", "4", ".", "x", "-"}
Digits == {"0", "1", "2", "3", "4", "5", "6", "7", "8", "9"}
NoneStr == <<"N", "o", "n", "e">>

StrUpTo(n) == UNION {[1..k -> Chars] : k \in 0..n}

\* What the remote session can print for DATABRICKS_RUNTIME_VERSION.
Outputs == StrUpTo(MaxOutLen) \cup {NoneStr}

DigitVal(c) ==
    CASE c = "0" -> 0 [] c = "1" -> 1 [] c = "2" -> 2 [] c = "3" -> 3
      [] c = "4" -> 4 [] c = "5" -> 5 [] c = "6" -> 6 [] c = "7" -> 7
      [] c = "8" -> 8 [] c = "9" -> 9

RECURSIVE DecVal(_)
DecVal(s) ==
    IF Len(s) = 0 THEN 0
    ELSE 10 * DecVal(SubSeq(s, 1, Len(s) - 1)) + DigitVal(s[Len(s)])

\* Variant: the output is not split at the dots.
SplitDotFirst_whole(s) == s

\* str.split(".")[0]: the text before the first dot.
RECURSIVE SplitDotFirst(_)
SplitDotFirst(s) ==
    IF Len(s) = 0 \/ s[1] = "." THEN <<>>
    ELSE <<s[1]>> \o SplitDotFirst(Tail(s))

\* int(s) over Chars: an optional sign followed by one or more digits;
\* ok = FALSE stands for ValueError.
PyInt(s) ==
    LET signed == Len(s) > 0 /\ s[1] \in {"-", "+"}
        body == IF signed THEN Tail(s) ELSE s
        ok == Len(body) > 0 /\ \A i \in 1..Len(body) : body[i] \in Digits
        mag == IF ok THEN DecVal(body) ELSE 0
    IN [ok |-> ok,
        val |-> IF signed /\ s[1] = "-" THEN 0 - mag ELSE mag]

\* ExecutionController._identify_runtime_version, from the command's output.
identify_runtime_version(_version_string) ==
    LET clean_none == _version_string = NoneStr
        parsed == PyInt(SplitDotFirst(_version_string))
    IN IF clean_none \/ Len(_version_string) = 0 THEN Unknown
       ELSE IF parsed.ok THEN Known(parsed.val)
       ELSE Unknown

\* Variant: the threshold itself does not restart.
refresh_needed_above(_version) ==
    _version.known /\ _version.val # 0 /\ _version.val > 13

\* The condition of _refresh_python_if_necessary.
refresh_needed(_version) ==
    _version.known /\ _version.val # 0 /\ _version.val >= 13

----------------------------------------------------------------------------
(* Construction *)

TaskTypes == {"spark_python_task", "python_wheel_task", "other_task"}

\* The task descriptors handed to the controller.  A spark_python_task has
\* positional parameters only, a python_wheel_task has positional and named
\* ones; other_task stands for every task_type that equals neither
\* TaskType.spark_python_task nor TaskType.python_wheel_task.
Tasks ==
    {[task_type |-> "spark_python_task", parameters |-> p,
      named_parameters |-> NoneParams] : p \in ParamValues}
    \cup
    {[task_type |-> "python_wheel_task", parameters |-> p,
      named_parameters |-> n] : p \in ParamValues, n \in ParamValues}
    \cup
    {[task_type |-> "other_task", parameters |-> NoneParams,
      named_parameters |-> NoneParams]}

\* The transfer strategy chosen by __init__.
file_uploader_for(upload_via_context) ==
    IF upload_via_context THEN "ContextBasedUploader" ELSE "MlflowFileUploader"

\* Variant: the mlflow run is started whatever the transfer strategy.
run_for_always(upload_via_context) == "mlflow_run"

\* self._run after __init__: the mlflow run, or None.
run_for(upload_via_context) ==
    IF upload_via_context THEN None ELSE "mlflow_run"

\* ExecutionController.__init__
Controller(no_package, core_package, extra_package, upload_via_context, requirements_file, task, pip_install_extras) ==
    [no_package |-> no_package,
     core_package |-> core_package,
     extra_package |-> extra_package,
     upload_via_context |-> upload_via_context,
     requirements_file |-> requirements_file,
     task |-> task,
     pip_install_extras |-> pip_install_extras,
     run |-> run_for(upload_via_context),
     file_uploader |-> file_uploader_for(upload_via_context)]

Controllers ==
    {Controller(np, cp, ep, uvc, rf, t, ex) :
        np \in BOOLEAN, cp \in {None, "A"}, ep \in {None, "B"},
        uvc \in BOOLEAN, rf \in {None, "reqs.txt"}, t \in Tasks,
        ex \in {None, "dev"}}

\* The package manager and the stand-alone probe are not in use.
AuxIdle ==
    /\ package_path = None
    /\ fs = <<>>
    /\ file_locator = <<>>
    /\ sorted_locator = <<>>
    /\ package = <<>>
    /\ lpc = "idle"
    /\ version_string = <<>>
    /\ probed = Unknown
    /\ ppc = "idle"

Init ==
    /\ AuxIdle
    /\ entry = None
    /\ self \in Controllers
    /\ fs_exists \in BOOLEAN
    /\ (self.requirements_file = None => fs_exists = FALSE)
    /\ phase = "start"
    /\ pc = "idle"
    /\ calls = <<>>
    /\ error = NoError
    /\ version = Unknown
    /\ parameters = None
    /\ active_run = (self.run # None)
    /\ start_runs = IF self.run # None THEN 1 ELSE 0
    /\ end_runs = 0
    /\ runs = 0

----------------------------------------------------------------------------
(* Control flow of run() *)

\* Variant: the extra package is installed before the core package.
PhaseOrder_extra_first == <<"requirements", "extra", "core", "task", "final">>

\* The blocks of run() in program order.
PhaseOrder == <<"requirements", "core", "extra", "task", "final">>

\* Variant: the core block is entered whenever a core package was found.
Entered_core_when_present(s, ph) ==
    CASE ph = "requirements" -> s.requirements_file # None
      [] ph = "core" -> ~s.no_package \/ s.core_package # None
      [] ph = "extra" -> s.extra_package # None
      [] ph = "task" -> TRUE
      [] ph = "final" -> TRUE

\* Variant: the extra package is installed only along with the core package.
Entered_extra_needs_core(s, ph) ==
    CASE ph = "requirements" -> s.requirements_file # None
      [] ph = "core" -> ~s.no_package
      [] ph = "extra" -> ~s.no_package /\ s.extra_package # None
      [] ph = "task" -> TRUE
      [] ph = "final" -> TRUE

\* Variant: the core block is entered on every run.
Entered_core_always(s, ph) ==
    CASE ph = "requirements" -> s.requirements_file # None
      [] ph = "core" -> TRUE
      [] ph = "extra" -> s.extra_package # None
      [] ph = "task" -> TRUE
      [] ph = "final" -> TRUE

\* The condition under which run() enters a block.
Entered(s, ph) ==
    CASE ph = "requirements" -> s.requirements_file # None
      [] ph = "core" -> ~s.no_package
      [] ph = "extra" -> s.extra_package # None
      [] ph = "task" -> TRUE
      [] ph = "final" -> TRUE

PhaseIndex(ph) ==
    IF ph = "start" THEN 0
    ELSE CHOOSE i \in 1..Len(PhaseOrder) : PhaseOrder[i] = ph

\* The first block after ph whose condition holds.
NextPhase(s, ph) ==
    LET later == {i \in 1..Len(PhaseOrder) :
                    i > PhaseIndex(ph) /\ Entered(s, PhaseOrder[i])}
    IN PhaseOrder[CHOOSE i \in later : \A j \in later : i <= j]

\* The artifact a block uploads and installs.
ArtifactOf(s, ph) ==
    CASE ph = "requirements" -> s.requirements_file
      [] ph = "core" -> s.core_package
      [] ph = "extra" -> s.extra_package

\* Variant: both package installs carry the extras.
ExtrasOf_both(s, ph) == s.pip_install_extras

\* The second argument of client.install_package in a block.
ExtrasOf(s, ph) ==
    IF ph = "core" THEN s.pip_install_extras ELSE None

Call(op, arg, opt, ok) ==
    [op |-> op, arg |-> arg, opt |-> opt, phase |-> phase, ok |-> ok]

Issue(c) == calls' = Append(calls, c)

Raise(e) == pc' = "raised" /\ error' = e /\ phase' = phase

Goto(ph, label) == phase' = ph /\ pc' = label /\ error' = error

lifetime == <<self, fs_exists, start_runs, entry, aux>>

\* Where control goes when an install method returns: back into run(), or
\* out of the method when it was invoked on its own.
Return(ph) ==
    IF entry = "run"
    THEN Goto(NextPhase(self, ph), "enter")
    ELSE Goto(ph, "returned")

----------------------------------------------------------------------------
(* Steps of run() *)

\* run() is invoked on the controller.
run_begin ==
    /\ pc \in {"idle", "returned", "raised"}
    /\ runs < MaxRuns
    /\ runs' = runs + 1
    /\ calls' = <<>>
    /\ error' = NoError
    /\ version' = Unknown
    /\ parameters' = None
    /\ phase' = NextPhase(self, "start")
    /\ pc' = "enter"
    /\ entry' = "run"
    /\ UNCHANGED <<self, fs_exists, start_runs, aux, active_run, end_runs>>

\* install_extra_package() is invoked on the controller on its own.
install_extra_package_begin ==
    /\ pc \in {"idle", "returned", "raised"}
    /\ runs < MaxRuns
    /\ runs' = runs + 1
    /\ calls' = <<>>
    /\ error' = NoError
    /\ version' = Unknown
    /\ parameters' = None
    /\ phase' = "extra"
    /\ pc' = "enter"
    /\ entry' = "install_extra_package"
    /\ UNCHANGED <<self, fs_exists, start_runs, aux, active_run, end_runs>>

\* Variant: the existence check is left out.
requirements_file_ok_unchecked(exists) == TRUE

\* install_requirements_file: the existence check.
requirements_file_ok(exists) == exists

install_requirements_file ==
    /\ phase = "requirements" /\ pc = "enter"
    /\ IF requirements_file_ok(fs_exists)
       THEN Goto(phase, "upload")
       ELSE Raise("Exception")
    /\ UNCHANGED <<lifetime, calls, version, parameters, active_run,
                   end_runs, runs>>

\* Variant: the presence check is left out.
core_package_ok_unchecked(s) == TRUE

\* install_package: the presence check of the core package.
core_package_ok(s) == s.core_package # None

install_package ==
    /\ phase = "core" /\ pc = "enter"
    /\ IF core_package_ok(self)
       THEN Goto(phase, "upload")
       ELSE Raise("FileNotFoundError")
    /\ UNCHANGED <<lifetime, calls, version, parameters, active_run,
                   end_runs, runs>>

\* install_extra_package: the presence check of the extra package.
install_extra_package ==
    /\ phase = "extra" /\ pc = "enter"
    /\ IF self.extra_package # None
       THEN Goto(phase, "upload")
       ELSE Raise("FileNotFoundError")
    /\ UNCHANGED <<lifetime, calls, version, parameters, active_run,
                   end_runs, runs>>

\* Variant: a failed upload is tried again.
upload_and_provide_path_retry ==
    /\ phase \in {"requirements", "core", "extra"} /\ pc = "upload"
    /\ \E ok \in BOOLEAN :
        /\ Issue(Call("upload_and_provide_path", ArtifactOf(self, phase),
                      self.file_uploader, ok))
        /\ IF ok THEN Goto(phase, "install") ELSE Goto(phase, "upload")
    /\ UNCHANGED <<lifetime, version, parameters, active_run, end_runs, runs>>

\* self._file_uploader.upload_and_provide_path(...) of the three blocks.
upload_and_provide_path ==
    /\ phase \in {"requirements", "core", "extra"} /\ pc = "upload"
    /\ \E ok \in BOOLEAN :
        /\ Issue(Call("upload_and_provide_path", ArtifactOf(self, phase),
                      self.file_uploader, ok))
        /\ IF ok THEN Goto(phase, "install") ELSE Raise("RemoteError")
    /\ UNCHANGED <<lifetime, version, parameters, active_run, end_runs, runs>>

\* The install call of the three blocks: a %pip command for the
\* requirements file, client.install_package for the packages.
issue_install ==
    /\ phase \in {"requirements", "core", "extra"} /\ pc = "install"
    /\ \E ok \in BOOLEAN :
        /\ IF phase = "requirements"
           THEN Issue(Call("execute_command", "pip_install_requirements",
                           None, ok))
           ELSE Issue(Call("install_package", ArtifactOf(self, phase),
                           ExtrasOf(self, phase), ok))
        /\ IF ok THEN Goto(phase, "probe") ELSE Raise("RemoteError")
    /\ UNCHANGED <<lifetime, version, parameters, active_run, end_runs, runs>>

\* _identify_runtime_version: the introspection command and its parsing.
probe_runtime_version ==
    /\ phase \in {"requirements", "core", "extra"} /\ pc = "probe"
    /\ \/ /\ Issue(Call("execute_command", "probe", None, FALSE))
          /\ Raise("RemoteError")
          /\ version' = version
       \/ \E out \in Outputs :
          /\ Issue(Call("execute_command", "probe", None, TRUE))
          /\ version' = identify_runtime_version(out)
          /\ Goto(phase, "refresh")
    /\ UNCHANGED <<lifetime, parameters, active_run, end_runs, runs>>

\* _refresh_python_if_necessary after the probe, and the return to run().
refresh_python_if_necessary ==
    /\ phase \in {"requirements", "core", "extra"} /\ pc = "refresh"
    /\ IF refresh_needed(version)
       THEN \E ok \in BOOLEAN :
             /\ Issue(Call("execute_command", "restartPython", None, ok))
             /\ IF ok THEN Return(phase) ELSE Raise("RemoteError")
       ELSE /\ calls' = calls
            /\ Return(phase)
    /\ version' = Unknown
    /\ UNCHANGED <<lifetime, parameters, active_run, end_runs, runs>>

\* Variant: the positional parameters of a wheel task take precedence.
parameters_to_preprocess_positional_first(task) ==
    CASE task.task_type = "spark_python_task" -> "parameters"
      [] task.task_type = "python_wheel_task" ->
            IF Truthy(task.parameters) THEN "parameters"
            ELSE IF Truthy(task.named_parameters) THEN "named_parameters"
            ELSE None
      [] OTHER -> None

\* The parameter collection run() hands to preprocess_task_parameters:
\* the name of the task's attribute, or None when it makes no such call.
parameters_to_preprocess(task) ==
    CASE task.task_type = "spark_python_task" -> "parameters"
      [] task.task_type = "python_wheel_task" ->
            IF Truthy(task.named_parameters) THEN "named_parameters"
            ELSE IF Truthy(task.parameters) THEN "parameters"
            ELSE None
      [] OTHER -> None

\* The dispatch branch of run() for a task type, or None.
dispatch_of(task_type) ==
    CASE task_type = "spark_python_task" -> "execute_file"
      [] task_type = "python_wheel_task" -> "execute_entry_point"
      [] OTHER -> None

\* run(): the if / elif on the task type.
select_task_branch ==
    /\ phase = "task" /\ pc = "enter"
    /\ parameters' = parameters_to_preprocess(self.task)
    /\ IF dispatch_of(self.task.task_type) = None
       THEN Goto(NextPhase(self, phase), "enter")
       ELSE IF parameters_to_preprocess(self.task) # None
       THEN Goto(phase, "traverse")
       ELSE Goto(phase, "dispatch")
    /\ UNCHANGED <<lifetime, calls, version, active_run, end_runs, runs>>

\* preprocess_task_parameters: Adjuster(...).traverse(parameters)
preprocess_traverse ==
    /\ phase = "task" /\ pc = "traverse"
    /\ \E ok \in BOOLEAN :
        /\ Issue(Call("traverse", parameters, None, ok))
        /\ IF ok THEN Goto(phase, "setup_arguments") ELSE Raise("RemoteError")
    /\ UNCHANGED <<lifetime, version, parameters, active_run, end_runs, runs>>

\* Variant: the task's positional parameters are pushed, whichever
\* collection was resolved.
preprocess_setup_arguments_positional ==
    /\ phase = "task" /\ pc = "setup_arguments"
    /\ \E ok \in BOOLEAN :
        /\ Issue(Call("setup_arguments", "parameters", None, ok))
        /\ IF ok THEN Goto(phase, "dispatch") ELSE Raise("RemoteError")
    /\ UNCHANGED <<lifetime, version, parameters, active_run, end_runs, runs>>

\* preprocess_task_parameters: self._client.setup_arguments(parameters)
preprocess_setup_arguments ==
    /\ phase = "task" /\ pc = "setup_arguments"
    /\ \E ok \in BOOLEAN :
        /\ Issue(Call("setup_arguments", parameters, None, ok))
        /\ IF ok THEN Goto(phase, "dispatch") ELSE Raise("RemoteError")
    /\ UNCHANGED <<lifetime, version, parameters, active_run, end_runs, runs>>

\* execute_entrypoint_file
execute_entrypoint_file ==
    /\ phase = "task" /\ pc = "dispatch"
    /\ dispatch_of(self.task.task_type) = "execute_file"
    /\ \E ok \in BOOLEAN :
        /\ Issue(Call("execute_file", "execute_file", None, ok))
        /\ IF ok THEN Goto(NextPhase(self, phase), "enter")
                 ELSE Raise("RemoteError")
    /\ UNCHANGED <<lifetime, version, parameters, active_run, end_runs, runs>>

\* execute_entrypoint
execute_entrypoint ==
    /\ phase = "task" /\ pc = "dispatch"
    /\ dispatch_of(self.task.task_type) = "execute_entry_point"
    /\ \E ok \in BOOLEAN :
        /\ Issue(Call("execute_entry_point", "entry_point", None, ok))
        /\ IF ok THEN Goto(NextPhase(self, phase), "enter")
                 ELSE Raise("RemoteError")
    /\ UNCHANGED <<lifetime, version, parameters, active_run, end_runs, runs>>

\* run(): if self._run: mlflow.end_run(), then return.
finalize ==
    /\ phase = "final" /\ pc = "enter"
    /\ IF self.run # None
       THEN /\ Issue(Call("end_run", None, None, TRUE))
            /\ active_run' = FALSE
            /\ end_runs' = end_runs + 1
       ELSE UNCHANGED <<calls, active_run, end_runs>>
    /\ Goto(phase, "returned")
    /\ UNCHANGED <<lifetime, version, parameters, runs>>

Next ==
    \/ run_begin
    \/ install_requirements_file
    \/ install_package
    \/ install_extra_package
    \/ upload_and_provide_path
    \/ issue_install
    \/ probe_runtime_version
    \/ refresh_python_if_necessary
    \/ select_task_branch
    \/ preprocess_traverse
    \/ preprocess_setup_arguments
    \/ execute_entrypoint_file
    \/ execute_entrypoint
    \/ finalize

Spec == Init /\ [][Next]_vars

\* The controller with its install_extra_package method also invoked on its
\* own, not only from run().
NextDirect == Next \/ install_extra_package_begin

SpecDirect == Init /\ [][NextDirect]_vars

TypeOK ==
    /\ pc \in {"idle", "enter", "upload", "install", "probe", "refresh",
               "traverse", "setup_arguments", "dispatch", "returned", "raised"}
    /\ phase \in {"start", "requirements", "core", "extra", "task", "final"}
    /\ runs \in 0..MaxRuns

----------------------------------------------------------------------------
(* PackageManager *)

\* Files a dist directory may hold: wheels and one file the glob skips.
FileNames == {[name |-> "a", ext |-> "whl"], [name |-> "b", ext |-> "whl"],
              [name |-> "c", ext |-> "whl"], [name |-> "notes", ext |-> "txt"]}

File(n, t) == [name |-> n.name, ext |-> n.ext, mtime |-> t]

\* A directory as the operating system lists it: files with distinct names,
\* in any order, with any modification times.
Listings ==
    {l \in UNION {[1..k -> {File(n, t) : n \in FileNames, t \in 1..MaxMtime}]
                    : k \in 0..MaxFiles} :
        \A i, j \in DOMAIN l :
            (l[i].name = l[j].name /\ l[i].ext = l[j].ext) => i = j}

\* The wheel of another project, newer than every file of Listings.
OtherWheel == [name |-> "z", ext |-> "whl", mtime |-> MaxMtime + 1]

\* Path(package_path) / "dist" when package_path is truthy, else Path("dist").
dist_dir(path) ==
    IF path = None \/ path = "" THEN "dist" ELSE "proj/dist"

\* glob("*.whl"): the matching files, in listing order.
glob_whl(listing) == SelectSeq(listing, LAMBDA f : f.ext = "whl")

\* sorted(file_locator, key=os.path.getmtime): a stable sort.
RECURSIVE insert_by_mtime(_, _)
insert_by_mtime(sorted, f) ==
    IF sorted = <<>> THEN <<f>>
    ELSE IF sorted[Len(sorted)].mtime <= f.mtime THEN Append(sorted, f)
    ELSE Append(insert_by_mtime(SubSeq(sorted, 1, Len(sorted) - 1), f),
                sorted[Len(sorted)])

RECURSIVE sorted_by_mtime(_)
sorted_by_mtime(l) ==
    IF l = <<>> THEN <<>>
    ELSE insert_by_mtime(sorted_by_mtime(SubSeq(l, 1, Len(l) - 1)), l[Len(l)])

\* Variant: the first file of the sorted list is taken.
latest_first(sorted) == sorted[1]

\* sorted_locator[-1]
latest(sorted) == sorted[Len(sorted)]

\* Library(whl=f"file://{package_file}")
Library(f) == [whl |-> <<"file://", f>>]

\* The package manager is constructed for a package_path, with the
\* directory it will search holding any listing and the other one holding
\* another project's wheel.
InitLocator ==
    /\ package_path \in {None, "", "proj"}
    /\ \E l \in Listings :
        fs = [d \in {"dist", "proj/dist"} |->
                IF d = dist_dir(package_path) THEN l ELSE <<OtherWheel>>]
    /\ file_locator = <<>>
    /\ sorted_locator = <<>>
    /\ package = <<>>
    /\ lpc = "glob"
    /\ version_string = <<>> /\ probed = Unknown /\ ppc = "idle"
    /\ entry = None
    /\ self = Controller(TRUE, None, None, TRUE, None,
                         [task_type |-> "other_task", parameters |-> NoneParams,
                          named_parameters |-> NoneParams], None)
    /\ fs_exists = FALSE
    /\ phase = "start" /\ pc = "idle" /\ calls = <<>> /\ error = NoError
    /\ version = Unknown /\ parameters = None
    /\ active_run = FALSE /\ start_runs = 0 /\ end_runs = 0 /\ runs = 0

controller == <<self, fs_exists, phase, pc, calls, error, version, parameters,
                active_run, start_runs, end_runs, runs, entry>>

\* get_package_file: the glob of the dist directory.
get_package_file_glob ==
    /\ lpc = "glob"
    /\ file_locator' = glob_whl(fs[dist_dir(package_path)])
    /\ lpc' = "sort"
    /\ UNCHANGED <<controller, package_path, fs, sorted_locator, package,
                   version_string, probed, ppc>>

\* get_package_file: the sort by modification time.
get_package_file_sort ==
    /\ lpc = "sort"
    /\ sorted_locator' = sorted_by_mtime(file_locator)
    /\ lpc' = "pick"
    /\ UNCHANGED <<controller, package_path, fs, file_locator, package,
                   version_string, probed, ppc>>

\* get_package_file's return value wrapped by prepare_package.
prepare_package ==
    /\ lpc = "pick"
    /\ package' = IF sorted_locator # <<>>
                  THEN <<Library(latest(sorted_locator))>>
                  ELSE <<>>
    /\ lpc' = "done"
    /\ UNCHANGED <<controller, package_path, fs, file_locator, sorted_locator,
                   version_string, probed, ppc>>

NextLocator ==
    \/ get_package_file_glob
    \/ get_package_file_sort
    \/ prepare_package

SpecLocator == InitLocator /\ [][NextLocator]_vars

----------------------------------------------------------------------------
(* _identify_runtime_version on its own *)

ProbeChars == {"0", "1", "3", ".", "x", "-", "+"}

\* The outputs the introspection command is given here.
ProbeOutputs ==
    UNION {[1..k -> ProbeChars] : k \in 0..MaxProbeLen} \cup {NoneStr}

InitProbe ==
    /\ version_string \in ProbeOutputs
    /\ probed = Unknown
    /\ ppc = "call"
    /\ package_path = None /\ fs = <<>> /\ file_locator = <<>>
    /\ sorted_locator = <<>> /\ package = <<>> /\ lpc = "idle"
    /\ entry = None
    /\ self = Controller(TRUE, None, None, TRUE, None,
                         [task_type |-> "other_task", parameters |-> NoneParams,
                          named_parameters |-> NoneParams], None)
    /\ fs_exists = FALSE
    /\ phase = "start" /\ pc = "idle" /\ calls = <<>> /\ error = NoError
    /\ version = Unknown /\ parameters = None
    /\ active_run = FALSE /\ start_runs = 0 /\ end_runs = 0 /\ runs = 0

\* _identify_runtime_version returns for the output it was given.
identify_runtime_version_return ==
    /\ ppc = "call"
    /\ probed' = identify_runtime_version(version_string)
    /\ ppc' = "done"
    /\ UNCHANGED <<controller, package_path, fs, file_locator, sorted_locator,
                   package, lpc, version_string>>

NextProbe == identify_runtime_version_return

SpecProbe == InitProbe /\ [][NextProbe]_vars

----------------------------------------------------------------------------
(* Reading the call trace *)

Idx == DOMAIN calls

IsUpload(c) == c.op = "upload_and_provide_path"
IsInstall(c) ==
    \/ c.op = "install_package"
    \/ c.op = "execute_command" /\ c.arg = "pip_install_requirements"
IsProbe(c) == c.op = "execute_command" /\ c.arg = "probe"
IsRestart(c) == c.op = "execute_command" /\ c.arg = "restartPython"
IsResolution(c) == c.op \in {"traverse", "setup_arguments"}
IsDispatch(c) == c.op \in {"execute_file", "execute_entry_point"}
IsEndRun(c) == c.op = "end_run"

Count(P(_)) == Cardinality({i \in Idx : P(calls[i])})

Finished == pc \in {"returned", "raised"}

\* The parameters of the task's active shape that are non-empty.
CarriesParameters(task) ==
    CASE task.task_type = "spark_python_task" -> Truthy(task.parameters)
      [] task.task_type = "python_wheel_task" ->
            Truthy(task.named_parameters) \/ Truthy(task.parameters)
      [] OTHER -> FALSE

\* Position of a call in the order requirements, core, extra, parameter
\* resolution, dispatch, finalization.
Rank(c) ==
    CASE c.phase = "requirements" -> 1
      [] c.phase = "core" -> 2
      [] c.phase = "extra" -> 3
      [] c.phase = "task" /\ IsResolution(c) -> 4
      [] c.phase = "task" /\ ~IsResolution(c) -> 5
      [] c.phase = "final" -> 6

----------------------------------------------------------------------------
(* Claims *)

\* C1: when no_package is true, no run uploads the core artifact or issues
\* an install call for it: the core block is never entered and the trace
\* holds no call of that block and no upload or install of the core package.
C1_NoCoreInstallWhenSuppressed ==
    self.no_package =>
        /\ phase # "core"
        /\ \A i \in Idx :
            /\ calls[i].phase # "core"
            /\ (IsUpload(calls[i]) \/ IsInstall(calls[i]))
                    => calls[i].arg # "A"

C1_Witness ==
    /\ self.no_package /\ self.core_package = "A"
    /\ pc = "returned"
    /\ \E i \in Idx : IsInstall(calls[i])

\* C2 as stated: when the core install is requested and no core package
\* exists, no call has been issued when the missing-artifact error is raised.
C2_Original ==
    (~self.no_package /\ self.core_package = None
        /\ error = "FileNotFoundError")
    => calls = <<>>

\* C2 amended: with the core install requested and no core package, a run
\* never returns normally; the only calls it issues are those of the
\* requirements block (none when no requirements file was given); a run that
\* reaches the core block raises the missing-artifact error there without
\* any call of the core block or of a later block, and issues nothing after.
C2_MissingCoreFailsBeforeCoreCalls ==
    /\ [](  (~self.no_package /\ self.core_package = None) =>
              /\ pc # "returned"
              /\ phase \in {"start", "requirements", "core"}
              /\ \A i \in Idx : calls[i].phase = "requirements"
              /\ (self.requirements_file = None => calls = <<>>)
              /\ (phase = "core" => pc \in {"enter", "raised"})
              /\ (phase = "core" /\ pc = "raised"
                    => error = "FileNotFoundError")
              /\ (error = "FileNotFoundError" => phase = "core"))
    /\ [][error = "FileNotFoundError" /\ error' = "FileNotFoundError"
            => calls' = calls]_vars

C2_Witness ==
    /\ ~self.no_package /\ self.core_package = None
    /\ pc = "raised" /\ error = "FileNotFoundError"
    /\ Len(calls) >= 3

\* C3 as stated: when a tracked run was opened at construction, every run()
\* ends, normally or with an error, with the tracked run closed.
C3_Original ==
    (self.run # None /\ Finished) => ~active_run

\* C4 as stated: a run that gets through the task block has issued exactly
\* one dispatch call, the one of the task's type.
C4_Original ==
    pc = "returned" =>
        /\ Count(IsDispatch) = 1
        /\ \A i \in Idx : IsDispatch(calls[i]) =>
            calls[i].op = dispatch_of(self.task.task_type)

\* C5 as stated: a run that returns has made the parameter-resolution calls
\* (traverse, then setup_arguments) exactly when the task's active shape
\* carries non-empty parameters, and then once.  Stated for the descriptors
\* whose positional parameters are a list, empty or not.
C5_Original ==
    (/\ pc = "returned"
     /\ dispatch_of(self.task.task_type) # None
     /\ self.task.parameters.present)
    => IF CarriesParameters(self.task)
       THEN Count(IsResolution) = 2
       ELSE Count(IsResolution) = 0

\* C6: the refresh decision appends a restartPython command exactly when
\* the probed version is an integer >= 13, it appends at most that one call,
\* and no other step issues a restart.
C6_RestartIffAtLeastThreshold ==
    [][ LET restarted ==
                /\ Len(calls') = Len(calls) + 1
                /\ SubSeq(calls', 1, Len(calls)) = calls
                /\ IsRestart(calls'[Len(calls')])
        IN /\ (pc = "refresh" =>
                 /\ restarted <=> (version.known /\ version.val >= 13)
                 /\ ~restarted => calls' = calls)
           /\ (restarted => pc = "refresh")
      ]_vars

C6_Witness ==
    \E i \in Idx : i > 1 /\ IsRestart(calls[i]) /\ IsProbe(calls[i - 1])

\* C7 as stated: run() never fails because of the probe.
C7_Original ==
    ~(/\ pc = "raised"
      /\ Len(calls) > 0
      /\ IsProbe(calls[Len(calls)])
      /\ ~calls[Len(calls)].ok)

\* C8: a requirements file that was given but does not exist makes run()
\* raise the configuration error with no call issued at all.
C8_MissingRequirementsFailsFirst ==
    (self.requirements_file # None /\ ~fs_exists) =>
        /\ calls = <<>>
        /\ pc # "returned"
        /\ phase \in {"start", "requirements"}
        /\ (pc = "raised" => error = "Exception")

C8_Witness ==
    /\ self.requirements_file # None /\ ~fs_exists
    /\ pc = "raised" /\ error = "Exception"

\* C9: a failed call is the last call of its run, and the run has raised
\* with that failure: nothing is retried and no later block is entered.
C9_FailureIsHardStop ==
    \A i \in Idx :
        ~calls[i].ok =>
            /\ i = Len(calls)
            /\ pc = "raised"
            /\ error = "RemoteError"

C9_Witness ==
    /\ pc = "raised" /\ error = "RemoteError"
    /\ Len(calls) >= 2
    /\ ~calls[Len(calls)].ok

\* C10: the calls of a run appear in the order requirements, core, extra,
\* parameter resolution, dispatch, finalization; every block runs at most
\* once (one upload and one install per install block, one traverse, one
\* setup_arguments, one dispatch, one end_run).
C10_PhasesInOrderOnce ==
    /\ \A i, j \in Idx : i < j => Rank(calls[i]) <= Rank(calls[j])
    /\ \A i, j \in Idx :
        (calls[i].phase = calls[j].phase /\ calls[i].op = calls[j].op
            /\ calls[i].arg = calls[j].arg)
        => i = j

C10_Witness ==
    /\ pc = "returned"
    /\ \A r \in 1..6 : \E i \in Idx : Rank(calls[i]) = r

\* The calls of one block of run(), in order.
PhaseCalls(ph) == SelectSeq(calls, LAMBDA c : c.phase = ph)

\* The calls of the run without restarts, parameter resolution and end_run,
\* each reduced to its operation and argument.
RECURSIVE Outline(_)
Outline(cs) ==
    IF cs = <<>> THEN <<>>
    ELSE IF IsRestart(Head(cs)) \/ IsResolution(Head(cs)) \/ IsEndRun(Head(cs))
    THEN Outline(Tail(cs))
    ELSE <<<<Head(cs).op, Head(cs).arg>>>> \o Outline(Tail(cs))

\* C11: each install block issues upload, install, probe and then at most
\* one restart, each after the previous one succeeded and with nothing of
\* another block in between; a returned run with an extra package has
\* installed it whatever no_package is; and with no_package, core A, extra B
\* and an existing requirements file the returned run has issued
\* upload(reqs), install(reqs), probe, upload(B), install(B), probe, dispatch
\* (restarts aside) and nothing for the core package.
C11_InstallBlockOrder ==
    /\ \A ph \in {"requirements", "core", "extra"} :
        LET cs == PhaseCalls(ph)
            art == CASE ph = "requirements" -> "reqs.txt"
                     [] ph = "core" -> "A"
                     [] ph = "extra" -> "B"
        IN /\ Len(cs) <= 4
           /\ Len(cs) >= 1 => IsUpload(cs[1]) /\ cs[1].arg = art
           /\ Len(cs) >= 2 => cs[1].ok /\ IsInstall(cs[2])
           /\ Len(cs) >= 2 /\ ph # "requirements" => cs[2].arg = art
           /\ Len(cs) >= 3 => cs[2].ok /\ IsProbe(cs[3])
           /\ Len(cs) >= 4 => cs[3].ok /\ IsRestart(cs[4])
    /\ \A i, j, k \in Idx :
        (i < j /\ j < k /\ calls[i].phase = calls[k].phase)
            => calls[j].phase = calls[i].phase
    /\ (pc = "returned" /\ self.extra_package = "B") =>
            \E i \in Idx : calls[i].op = "install_package"
                            /\ calls[i].arg = "B" /\ calls[i].ok
    /\ (/\ pc = "returned"
        /\ self.no_package /\ self.core_package = "A"
        /\ self.extra_package = "B" /\ self.requirements_file # None
        /\ self.task.task_type # "other_task") =>
            Outline(calls) =
                << <<"upload_and_provide_path", "reqs.txt">>,
                   <<"execute_command", "pip_install_requirements">>,
                   <<"execute_command", "probe">>,
                   <<"upload_and_provide_path", "B">>,
                   <<"install_package", "B">>,
                   <<"execute_command", "probe">>,
                   IF self.task.task_type = "spark_python_task"
                   THEN <<"execute_file", "execute_file">>
                   ELSE <<"execute_entry_point", "entry_point">> >>

C11_Witness ==
    /\ pc = "returned"
    /\ self.no_package /\ self.core_package = "A"
    /\ self.extra_package = "B" /\ self.requirements_file # None
    /\ Count(IsRestart) = 1
    /\ Count(IsDispatch) = 1

\* C13 as stated: over the controller's lifetime, with run() invoked any
\* number of times, the tracked run is opened at most once and closed at
\* most once.
C13_Original ==
    start_runs <= 1 /\ end_runs <= 1

\* C14: the transfer strategy is the one chosen at construction: a tracked
\* run was opened exactly when upload_via_context is false, every upload
\* goes through the uploader of that choice, and with upload_via_context no
\* tracked run is open and no end_run call is issued.
C14_StrategyFixedAtConstruction ==
    /\ self.upload_via_context <=> self.run = None
    /\ start_runs = (IF self.upload_via_context THEN 0 ELSE 1)
    /\ \A i \in Idx : IsUpload(calls[i]) =>
        calls[i].opt = (IF self.upload_via_context
                        THEN "ContextBasedUploader" ELSE "MlflowFileUploader")
    /\ self.upload_via_context =>
        /\ ~active_run
        /\ end_runs = 0
        /\ \A i \in Idx : ~IsEndRun(calls[i])

C14_Witness ==
    /\ self.upload_via_context
    /\ pc = "returned"
    /\ Count(IsUpload) >= 2

\* C16: a setup_arguments call directly follows a successful traverse call
\* for the same parameter collection, a dispatch call that follows parameter
\* resolution directly follows a successful setup_arguments, and no
\* resolution call comes after the dispatch.
C16_ResolveThenPushThenDispatch ==
    \A i \in Idx :
        /\ calls[i].op = "setup_arguments" =>
            /\ i > 1
            /\ calls[i - 1].op = "traverse"
            /\ calls[i - 1].ok
            /\ calls[i - 1].arg = calls[i].arg
        /\ (calls[i].op = "traverse" /\ i < Len(calls)) =>
            calls[i + 1].op = "setup_arguments"
        /\ IsDispatch(calls[i]) =>
            /\ \A j \in Idx : IsResolution(calls[j]) => j < i
            /\ \A j \in Idx : calls[j].op = "traverse" =>
                /\ calls[i - 1].op = "setup_arguments"
                /\ calls[i - 1].ok

C16_Witness ==
    /\ pc = "returned"
    /\ \E i \in Idx :
        /\ calls[i].op = "traverse" /\ calls[i].arg = "named_parameters"
        /\ calls[i + 1].op = "setup_arguments"
        /\ IsDispatch(calls[i + 2])

\* C18: with no requirements file, no_package true and no extra package the
\* run goes straight to the task block: no upload, install, probe or restart
\* call, and no configuration or missing-artifact error, also when no core
\* package was found.
C18_EmptyInstallRun ==
    (/\ self.requirements_file = None
     /\ self.no_package
     /\ self.extra_package = None) =>
        /\ \A i \in Idx :
            ~(IsUpload(calls[i]) \/ IsInstall(calls[i])
                \/ IsProbe(calls[i]) \/ IsRestart(calls[i]))
        /\ phase \in {"start", "task", "final"}
        /\ error \notin {"FileNotFoundError", "Exception"}

C18_Witness ==
    /\ self.requirements_file = None /\ self.no_package
    /\ self.extra_package = None /\ self.core_package = None
    /\ pc = "returned"
    /\ Count(IsDispatch) = 1

\* C19: for a python_wheel_task at most one collection is resolved and
\* pushed: the named parameters when they are non-empty, the positional
\* parameters only when they are non-empty and the named ones are empty or
\* None; a run that returns with non-empty named parameters has resolved
\* and pushed exactly them.
C19_NamedParametersFirst ==
    self.task.task_type = "python_wheel_task" =>
        /\ \A i \in Idx : IsResolution(calls[i]) =>
            IF Truthy(self.task.named_parameters)
            THEN calls[i].arg = "named_parameters"
            ELSE calls[i].arg = "parameters" /\ Truthy(self.task.parameters)
        /\ Cardinality({i \in Idx : calls[i].op = "traverse"}) <= 1
        /\ Cardinality({i \in Idx : calls[i].op = "setup_arguments"}) <= 1
        /\ (pc = "returned" /\ Truthy(self.task.named_parameters)) =>
            Count(IsResolution) = 2

C19_Witness ==
    /\ self.task.task_type = "python_wheel_task"
    /\ Truthy(self.task.named_parameters) /\ Truthy(self.task.parameters)
    /\ pc = "returned"
    /\ Count(IsResolution) = 2

\* C17: the install call of the core package carries pip_install_extras
\* (None when none was given), the install call of the extra package carries
\* None, and install_extra_package entered without an extra package raises
\* the missing-artifact error with no call issued.
C17_ExtrasOnlyForCore ==
    /\ \A i \in Idx : calls[i].op = "install_package" =>
        /\ calls[i].phase = "core" =>
            calls[i].arg = "A" /\ calls[i].opt = self.pip_install_extras
        /\ calls[i].phase = "extra" =>
            calls[i].arg = "B" /\ calls[i].opt = None
    /\ (phase = "extra" /\ self.extra_package = None) =>
        /\ calls = <<>>
        /\ pc \in {"enter", "raised"}
        /\ (pc = "raised" => error = "FileNotFoundError")

C17_Witness ==
    /\ entry = "install_extra_package"
    /\ self.extra_package = None /\ self.pip_install_extras = "dev"
    /\ pc = "raised" /\ error = "FileNotFoundError"
    /\ calls = <<>>

\* The wheels of the dist directory the package manager was pointed at.
Candidates ==
    LET dir == IF package_path = "proj" THEN "proj/dist" ELSE "dist"
    IN {fs[dir][i] : i \in {j \in DOMAIN fs[dir] : fs[dir][j].ext = "whl"}}

\* C12: once the package manager is constructed, its package is None
\* exactly when the dist directory holds no wheel, and when the wheels have
\* pairwise distinct modification times it is the wheel with the greatest
\* one, whatever the names and the listing order.
C12_LatestWheel ==
    lpc = "done" =>
        /\ package = <<>> <=> Candidates = {}
        /\ (/\ Candidates # {}
            /\ \A f, g \in Candidates : f # g => f.mtime # g.mtime) =>
                /\ Len(package) = 1
                /\ package[1].whl[1] = "file://"
                /\ package[1].whl[2] \in Candidates
                /\ \A g \in Candidates : g.mtime <= package[1].whl[2].mtime

C12_Witness ==
    /\ lpc = "done"
    /\ Cardinality(Candidates) = 3
    /\ \A f, g \in Candidates : f # g => f.mtime # g.mtime
    /\ package = <<Library(file_locator[1])>>
    /\ file_locator[1].name = "a"

\* The leading dot-delimited component of a text.
LeadingComponent(s) ==
    LET dots == {i \in 1..Len(s) : s[i] = "."}
        first == IF dots = {} THEN Len(s) + 1
                 ELSE CHOOSE i \in dots : \A j \in dots : i <= j
    IN SubSeq(s, 1, first - 1)

\* A text that reads as an integer: digits after an optional sign.
ReadsAsInteger(t) ==
    /\ Len(t) > 0
    /\ LET d == IF t[1] \in {"+", "-"} THEN 2 ELSE 1
       IN Len(t) >= d /\ \A i \in d..Len(t) : t[i] \in Digits

RECURSIVE Pow10(_)
Pow10(n) == IF n = 0 THEN 1 ELSE 10 * Pow10(n - 1)

RECURSIVE PlaceSum(_, _)
PlaceSum(t, i) ==
    IF i > Len(t) THEN 0
    ELSE (IF t[i] \in Digits THEN DigitVal(t[i]) * Pow10(Len(t) - i) ELSE 0)
         + PlaceSum(t, i + 1)

\* The integer such a text denotes.
IntegerOf(t) ==
    IF t[1] = "-" THEN 0 - PlaceSum(t, 2) ELSE PlaceSum(t, 1)

\* C15: the probe returns unknown for the output "None", for the empty
\* output and for an output whose leading dot-delimited component does not
\* read as an integer; for every other output it returns the integer that
\* component denotes.
C15_ProbeParsesLeadingComponent ==
    ppc = "done" =>
        IF \/ version_string = NoneStr
           \/ version_string = <<>>
           \/ ~ReadsAsInteger(LeadingComponent(version_string))
        THEN probed = Unknown
        ELSE probed = Known(IntegerOf(LeadingComponent(version_string)))

C15_Witness ==
    /\ ppc = "done"
    /\ version_string = <<"1", "3", ".", "x">>
    /\ probed = Known(13)

====
